---- MODULE Spec2Model ----
(***************************************************************************)
(* Model of the Discord Community Information Lookup tools:                *)
(*   dcil.py                 fetches membership snapshots and writes       *)
(*                           "Label: value" record files                   *)
(*   analyze_communities.py  parses record files, derives metrics, ranks   *)
(*                           communities and writes the two reports        *)
(*                                                                         *)
(* Text is modelled as a sequence of one-character strings, so that the    *)
(* string operations of the source (startswith, split, strip, int, the     *)
(* f-string formatting of integers) are computed character by character.   *)
(* Floating point values are modelled as exact fractions in lowest terms   *)
(* [num, den]; for the member counts within the model's bounds the         *)
(* correctly rounded double of a quotient of two integers preserves both   *)
(* order and equality of the exact quotients.                              *)
(***************************************************************************)
EXTENDS Integers, Sequences, FiniteSets, TLC

\* ------------------------------------------------------------- bounds
MaxCount == 1   \* member counts of the generated snapshots range over 0..MaxCount
MaxFiles == 3   \* number of record files a directory may hold
MaxLinks == 3   \* number of non-blank links in a batch file

\* ------------------------------------------------------------- text helpers
NL == "\n"

LblName == <<"C","o","m","m","u","n","i","t","y"," ","N","a","m","e",":">>
LblLink == <<"C","o","m","m","u","n","i","t","y"," ","L","i","n","k",":">>
LblActive == <<"T","o","t","a","l"," ","A","c","t","i","v","e"," ","M","e","m","b","e","r","s",":">>
LblOffline == <<"T","o","t","a","l"," ","O","f","f","l","i","n","e"," ","M","e","m","b","e","r","s",":">>
LblTotal == <<"T","o","t","a","l"," ","M","e","m","b","e","r","s",":">>
TxtExt == <<".","t","x","t">>

Digits == <<"0","1","2","3","4","5","6","7","8","9">>

IsSpace(c) == c \in {" ", NL}

IsDigit(c) == \E d \in 1..10 : Digits[d] = c

DigitVal(c) == (CHOOSE d \in 1..10 : Digits[d] = c) - 1

\* str.startswith
startswith(s, prefix) ==
    /\ Len(s) >= Len(prefix)
    /\ SubSeq(s, 1, Len(prefix)) = prefix

\* str.endswith
endswith(s, suffix) ==
    /\ Len(s) >= Len(suffix)
    /\ SubSeq(s, Len(s) - Len(suffix) + 1, Len(s)) = suffix

\* position of the first occurrence of character c in s, 0 when there is none
Find(s, c) ==
    IF \E i \in 1..Len(s) : s[i] = c
    THEN CHOOSE i \in 1..Len(s) : s[i] = c /\ \A j \in 1..(i-1) : s[j] # c
    ELSE 0

\* str.split(sep) for a one-character separator: all the segments
RECURSIVE split(_, _)
split(s, sep) ==
    LET i == Find(s, sep)
    IN  IF i = 0 THEN <<s>>
        ELSE <<SubSeq(s, 1, i-1)>> \o split(SubSeq(s, i+1, Len(s)), sep)

RECURSIVE lstrip(_)
lstrip(s) == IF s # <<>> /\ IsSpace(Head(s)) THEN lstrip(Tail(s)) ELSE s

RECURSIVE rstrip(_)
rstrip(s) ==
    IF s # <<>> /\ IsSpace(s[Len(s)]) THEN rstrip(SubSeq(s, 1, Len(s)-1)) ELSE s

\* str.strip()
strip(s) == rstrip(lstrip(s))

\* file.readlines(): the lines of a text, each keeping its line terminator
RECURSIVE readlines(_)
readlines(text) ==
    LET i == Find(text, NL)
    IN  IF text = <<>> THEN <<>>
        ELSE IF i = 0 THEN <<text>>
        ELSE <<SubSeq(text, 1, i)>> \o readlines(SubSeq(text, i+1, Len(text)))

\* "\n".join(lines)
RECURSIVE join(_, _)
join(sep, parts) ==
    IF parts = <<>> THEN <<>>
    ELSE IF Len(parts) = 1 THEN parts[1]
    ELSE parts[1] \o sep \o join(sep, Tail(parts))

\* value of a string of decimal digits
RECURSIVE DecVal(_)
DecVal(s) ==
    IF s = <<>> THEN 0
    ELSE 10 * DecVal(SubSeq(s, 1, Len(s)-1)) + DigitVal(s[Len(s)])

\* int(s) over the model's alphabet (digits, letters, punctuation, blanks;
\* no sign and no underscore): a non-empty digit string converts, anything
\* else raises ValueError
int(s) ==
    LET v == strip(s)
    IN  IF v # <<>> /\ \A i \in 1..Len(v) : IsDigit(v[i])
        THEN [ok |-> TRUE, val |-> DecVal(v)]
        ELSE [ok |-> FALSE, val |-> 0]

\* str(n) / f"{n}" of a non-negative integer
RECURSIVE str(_)
str(n) ==
    IF n < 10 THEN <<Digits[n+1]>>
    ELSE str(n \div 10) \o <<Digits[(n % 10) + 1]>>

\* ------------------------------------------------------------- fractions
RECURSIVE GCD(_, _)
GCD(a, b) == IF b = 0 THEN a ELSE GCD(b, a % b)

\* the value n/d (d > 0, n >= 0) in lowest terms
Rat(n, d) == LET g == GCD(n, d) IN [num |-> n \div g, den |-> d \div g]

RatLt(x, y) == x.num * y.den < y.num * x.den

RatAdd(x, y) == Rat(x.num * y.den + y.num * x.den, x.den * y.den)

\* ------------------------------------------------------------- dcil.py: format_report
format_report(info) ==
    join(<<NL>>,
         << LblName \o <<" ">> \o info.community_name,
            LblLink \o <<" ">> \o info.link,
            LblActive \o <<" ">> \o str(info.active_members),
            LblOffline \o <<" ">> \o str(info.offline_members),
            LblTotal \o <<" ">> \o str(info.total_members) >>)

\* ------------------------------------------------------------- dcil.py: scrape_discord_community
PatGG == <<"d","i","s","c","o","r","d",".","g","g","/">>
PatInvite == <<"d","i","s","c","o","r","d",".","c","o","m","/","i","n","v","i","t","e","/">>
ErrScraping == <<"E","r","r","o","r"," ","s","c","r","a","p","i","n","g"," ">>
ErrCommunity == <<"E","r","r","o","r"," ","s","c","r","a","p","i","n","g"," ","c","o","m","m","u","n","i","t","y",":"," ">>
MsgInvalidLink == <<"I","n","v","a","l","i","d"," ","D","i","s","c","o","r","d"," ","i","n","v","i","t","e"," ","l","i","n","k"," ","f","o","r","m","a","t">>
MsgStatusCode == <<"F","a","i","l","e","d"," ","t","o"," ","f","e","t","c","h"," ","d","a","t","a"," ","(","S","t","a","t","u","s"," ","c","o","d","e",":"," ">>
Lowercase == <<"a","b","c","d","e","f","g","h","i","j","k","l","m","n","o","p","q","r","s","t","u","v","w","x","y","z">>
Uppercase == <<"A","B","C","D","E","F","G","H","I","J","K","L","M","N","O","P","Q","R","S","T","U","V","W","X","Y","Z">>

\* the characters [\w-] matches, within the model's alphabet
IsWordChar(c) ==
    \/ \E i \in 1..26 : c = Lowercase[i] \/ c = Uppercase[i]
    \/ IsDigit(c)
    \/ c \in {"_", "-"}

\* s has pattern pat at position i, followed by at least one [\w-]
MatchesAt(s, pat, i) ==
    /\ i + Len(pat) <= Len(s)
    /\ SubSeq(s, i, i + Len(pat) - 1) = pat
    /\ IsWordChar(s[i + Len(pat)])

\* re.search(r'(?:discord\.gg/|discord\.com/invite/)([\w-]+)', link)
HasInviteCode(link) ==
    \E i \in 1..Len(link) : MatchesAt(link, PatGG, i) \/ MatchesAt(link, PatInvite, i)

NoInfo ==
    [community_name |-> <<>>, link |-> <<>>,
     active_members |-> 0, offline_members |-> 0, total_members |-> 0]

\* lines 33-67, for the response the invite API gives: the info dict, or
\* the message of the exception raised
scrape_discord_community(link, response) ==
    IF ~HasInviteCode(link)
    THEN [ok |-> FALSE, info |-> NoInfo, error |-> ErrCommunity \o MsgInvalidLink]
    ELSE IF response.status_code # 200
    THEN [ok |-> FALSE, info |-> NoInfo,
          error |-> ErrCommunity \o MsgStatusCode
                        \o str(response.status_code) \o <<")">>]
    ELSE [ok |-> TRUE,
          info |-> [community_name |-> response.name,
                    link |-> link,
                    active_members |-> response.approximate_presence_count,
                    offline_members |-> response.approximate_member_count
                                          - response.approximate_presence_count,
                    total_members |-> response.approximate_member_count],
          error |-> <<>>]

\* ------------------------------------------------------------- dcil.py: file names
InvalidChars == {"<", ">", ":", "\"", "/", "\\", "|", "?", "*"}

\* lines 82-87
sanitize_filename(filename) ==
    [i \in 1..Len(filename) |->
        IF filename[i] \in InvalidChars THEN "_" ELSE filename[i]]

\* str.lower() of one character
LowerChar(c) ==
    IF \E i \in 1..26 : Uppercase[i] = c
    THEN Lowercase[CHOOSE i \in 1..26 : Uppercase[i] = c]
    ELSE c

lower(s) == [i \in 1..Len(s) |-> LowerChar(s[i])]

\* lines 89-92
ensure_txt_extension(filename) ==
    IF ~endswith(lower(filename), TxtExt) THEN filename \o TxtExt ELSE filename

\* os.path.join of a relative directory without trailing separator and a
\* relative file name
path_join(directory, filename) == directory \o <<"/">> \o filename

\* ------------------------------------------------------------- analyze_communities.py: load_data_from_file
NoData == [k \in {} |-> 0]

Raise(kind, key) == [err |-> kind, key |-> key, data |-> NoData]

\* the for loop over the lines (lines 30-40): the dict after the last line,
\* or the ValueError of an int() that failed
RECURSIVE parse_lines(_, _)
parse_lines(lines, data) ==
    IF lines = <<>> THEN [err |-> "", key |-> "", data |-> data]
    ELSE
      LET line == Head(lines)
          field == strip(split(line, ":")[2])
          rest == Tail(lines)
      IN  IF startswith(line, LblName)
            THEN parse_lines(rest, ("community_name" :> field) @@ data)
          ELSE IF startswith(line, LblLink)
            THEN parse_lines(rest, ("link" :> field) @@ data)
          ELSE IF startswith(line, LblActive)
            THEN IF int(field).ok
                 THEN parse_lines(rest, ("active_members" :> int(field).val) @@ data)
                 ELSE Raise("ValueError", "active_members")
          ELSE IF startswith(line, LblOffline)
            THEN IF int(field).ok
                 THEN parse_lines(rest, ("offline_members" :> int(field).val) @@ data)
                 ELSE Raise("ValueError", "offline_members")
          ELSE IF startswith(line, LblTotal)
            THEN IF int(field).ok
                 THEN parse_lines(rest, ("total_members" :> int(field).val) @@ data)
                 ELSE Raise("ValueError", "total_members")
          ELSE parse_lines(rest, data)

\* line 43 with floor division in place of true division
engagement_rate_floordiv(data) ==
    IF data["total_members"] > 0
    THEN Rat((data["active_members"] \div data["total_members"]) * 100, 1)
    ELSE Rat(0, 1)

\* line 43
engagement_rate(data) ==
    IF data["total_members"] > 0
    THEN Rat(data["active_members"] * 100, data["total_members"])
    ELSE Rat(0, 1)

\* line 44 without the smoothing term: a / o, infinite when o is 0
active_ratio_unsmoothed(data) ==
    IF data["offline_members"] = 0 THEN [num |-> 1, den |-> 0]
    ELSE Rat(data["active_members"], data["offline_members"])

\* line 44
active_ratio(data) == Rat(data["active_members"], data["offline_members"] + 1)

\* load_data_from_file reading the numeric fields with a default of 0
load_data_with_defaults(text) ==
    LET r == parse_lines(readlines(text), NoData)
        data == r.data @@ [k \in {"active_members", "offline_members",
                                  "total_members"} |-> 0]
    IN  IF r.err # "" THEN r
        ELSE [err |-> "", key |-> "",
              data |-> ("engagement_rate" :> engagement_rate(data))
                       @@ ("active_ratio" :> active_ratio(data))
                       @@ data]

\* the whole function: the dict with the derived metrics, or the exception
\* that leaves it; the KeyError names the key whose lookup failed, in the
\* order lines 43-44 evaluate the lookups
load_data_from_file(text) ==
    LET r == parse_lines(readlines(text), NoData)
        data == r.data
        has(k) == k \in DOMAIN data
    IN  IF r.err # "" THEN r
        ELSE IF ~has("total_members") THEN Raise("KeyError", "total_members")
        ELSE IF data["total_members"] > 0 /\ ~has("active_members")
            THEN Raise("KeyError", "active_members")
        ELSE IF ~has("active_members") THEN Raise("KeyError", "active_members")
        ELSE IF ~has("offline_members") THEN Raise("KeyError", "offline_members")
        ELSE [err |-> "", key |-> "",
              data |-> ("engagement_rate" :> engagement_rate(data))
                       @@ ("active_ratio" :> active_ratio(data))
                       @@ data]

\* ------------------------------------------------------------- pandas: Series.rank, idxmax, sort_values, median
Reverse(s) == [i \in 1..Len(s) |-> s[Len(s) + 1 - i]]

\* stable insertion of index i into the ascending index order `sorted`
RECURSIVE Insert(_, _, _)
Insert(sorted, i, vals) ==
    IF sorted = <<>> THEN <<i>>
    ELSE IF RatLt(vals[i], vals[Head(sorted)]) THEN <<i>> \o sorted
    ELSE <<Head(sorted)>> \o Insert(Tail(sorted), i, vals)

\* the stable ascending argsort of the first n values
RECURSIVE lexsort_upto(_, _)
lexsort_upto(vals, n) ==
    IF n = 0 THEN <<>> ELSE Insert(lexsort_upto(vals, n - 1), n, vals)

lexsort(vals) == lexsort_upto(vals, Len(vals))

\* the pass of rank_1d over the sorted order with method="average": a run
\* of equal values receives the sum of its positions divided by its length
RECURSIVE rank_walk(_, _, _, _, _, _)
rank_walk(vals, order, i, dups, sum_ranks, out) ==
    IF i > Len(order) THEN out
    ELSE
      LET d == dups + 1
          s == sum_ranks + i
          next_val_diff == i = Len(order) \/ vals[order[i]] # vals[order[i+1]]
      IN  IF next_val_diff
          THEN rank_walk(vals, order, i + 1, 0, 0,
                   [k \in DOMAIN out |->
                       IF \E j \in (i - d + 1)..i : order[j] = k
                       THEN Rat(s, d) ELSE out[k]])
          ELSE rank_walk(vals, order, i + 1, d, s, out)

\* rank with ascending left at its default of True
rank_ascending(vals) ==
    rank_walk(vals, lexsort(vals), 1, 0, 0, [k \in 1..Len(vals) |-> Rat(0, 1)])

\* rank with method="first": ties ranked by their place in the sorted order
rank_first(vals) ==
    LET order == Reverse(lexsort(vals))
    IN  [k \in 1..Len(vals) |->
            Rat(CHOOSE i \in 1..Len(order) : order[i] = k, 1)]

\* Series.rank(ascending=False): the rank of every value, 1 = largest
rank(vals) ==
    rank_walk(vals, Reverse(lexsort(vals)), 1, 0, 0,
              [k \in 1..Len(vals) |-> Rat(0, 1)])

\* the left-to-right scan of argmax: a later value replaces the best one
\* only when it is strictly larger
RECURSIVE argmax_scan(_, _, _)
argmax_scan(vals, i, best) ==
    IF i > Len(vals) THEN best
    ELSE argmax_scan(vals, i + 1, IF RatLt(vals[best], vals[i]) THEN i ELSE best)

\* an argmax that lets a later, equal value replace the best one
RECURSIVE argmax_last(_, _, _)
argmax_last(vals, i, best) ==
    IF i > Len(vals) THEN best
    ELSE argmax_last(vals, i + 1, IF RatLt(vals[i], vals[best]) THEN best ELSE i)

idxmax_last(vals) == argmax_last(vals, 2, 1)

\* Series.idxmax(): the label of the first occurrence of the maximum
idxmax(vals) == argmax_scan(vals, 2, 1)

Perms(n) ==
    {p \in [1..n -> 1..n] : \A i, j \in 1..n : i # j => p[i] # p[j]}

\* DataFrame.sort_values(ascending=False) with the default, unstable
\* quicksort: every arrangement of the row labels in descending order of
\* the values; the order among equal values is not specified
sort_values(vals) ==
    {p \in Perms(Len(vals)) :
        \A i, j \in 1..Len(vals) : i < j => ~RatLt(vals[p[i]], vals[p[j]])}

RECURSIVE Sum(_)
Sum(vals) == IF vals = <<>> THEN Rat(0, 1) ELSE RatAdd(Head(vals), Sum(Tail(vals)))

\* Series.mean()
mean(vals) ==
    LET s == Sum(vals) IN Rat(s.num, s.den * Len(vals))

\* Series.median()
median(vals) ==
    LET o == lexsort(vals)
        n == Len(vals)
    IN  IF n % 2 = 1 THEN vals[o[(n + 1) \div 2]]
        ELSE LET s == RatAdd(vals[o[n \div 2]], vals[o[n \div 2 + 1]])
             IN  Rat(s.num, s.den * 2)

\* ------------------------------------------------------------- analyze_communities.py: the DataFrame and its rankings
NaN == <<"nan">>

Column(rows, k) == [i \in 1..Len(rows) |-> rows[i][k]]

IntColumn(rows, k) == [i \in 1..Len(rows) |-> Rat(rows[i][k], 1)]

\* pd.DataFrame(communities_data): the columns are the union of the keys,
\* a key a dict lacks is NaN in its row
DataFrame(communities_data) ==
    LET columns == UNION {DOMAIN communities_data[i] : i \in 1..Len(communities_data)}
    IN  [columns |-> columns,
         rows |-> [i \in 1..Len(communities_data) |->
                     [k \in columns |->
                         IF k \in DOMAIN communities_data[i]
                         THEN communities_data[i][k] ELSE NaN]]]

\* lines 63-70: the frame with the three rank columns, or the KeyError of
\* df['total_members'] on a frame without columns
add_rankings(communities_data) ==
    LET df == DataFrame(communities_data)
        size_rank == rank(IntColumn(df.rows, "total_members"))
        engagement_rank == rank(Column(df.rows, "engagement_rate"))
        activity_rank == rank(Column(df.rows, "active_ratio"))
    IN  IF "total_members" \notin df.columns
        THEN [err |-> "KeyError", key |-> "total_members",
              df |-> [columns |-> {}, rows |-> <<>>]]
        ELSE [err |-> "", key |-> "",
              df |-> [columns |-> df.columns
                          \cup {"size_rank", "engagement_rank", "activity_rank"},
                      rows |-> [i \in 1..Len(df.rows) |->
                          ("size_rank" :> size_rank[i])
                          @@ ("engagement_rank" :> engagement_rank[i])
                          @@ ("activity_rank" :> activity_rank[i])
                          @@ df.rows[i]]]]

\* ------------------------------------------------------------- analyze_communities.py: the reports
Inf == [num |-> 1, den |-> 0]

NotANumber == [num |-> 0, den |-> 0]

\* x / y of two numpy integers: a zero divisor gives inf or nan (with a
\* RuntimeWarning), never an exception
np_divide(x, y) ==
    IF y # 0 THEN Rat(x, y) ELSE IF x # 0 THEN Inf ELSE NotANumber

\* x * 100 of a numpy float
np_times100(q) == IF q.den = 0 THEN q ELSE Rat(q.num * 100, q.den)

\* lines 116-123 and 137-147: the market overview and the key findings of
\* analysis_report.txt; numbers are kept exact
report_findings(df) ==
    LET total_members == IntColumn(df.rows, "total_members")
        rate == Column(df.rows, "engagement_rate")
        highest_engagement == df.rows[idxmax(rate)]
    IN  [communities |-> Len(df.rows),
         average_size |-> mean(total_members),
         average_engagement |-> mean(rate),
         market_size |-> Sum(total_members).num,
         most_engaged |-> [community_name |-> highest_engagement["community_name"],
                           engagement_rate |-> highest_engagement["engagement_rate"]],
         largest |-> [community_name |->
                          df.rows[idxmax(total_members)]["community_name"],
                      total_members |->
                          df.rows[lexsort(total_members)[Len(df.rows)]]["total_members"]],
         median_size |-> median(total_members),
         median_engagement |-> median(rate)]

\* lines 110-147: the content of analysis_report.txt for one outcome of the
\* three sorts, the tables as the sorted row labels
generate_analysis_report(findings, by_size, by_engagement, by_activity) ==
    [findings |-> findings,
     by_size |-> by_size,
     by_engagement |-> by_engagement,
     by_activity |-> by_activity]

\* lines 196-217 with the two quotients of lines 196-202 exchanged
activity_ratio_report_swapped(community_data) ==
    LET active == community_data["active_members"]
        offline == community_data["offline_members"]
        total == community_data["total_members"]
    IN  [community_name |-> community_data["community_name"],
         total_members |-> total,
         active_members |-> active,
         offline_members |-> offline,
         engagement_rate |-> community_data["engagement_rate"],
         inactive_to_active_ratio |->
             IF offline > 0 THEN np_divide(active, offline) ELSE Inf,
         active_to_inactive_ratio |->
             IF active > 0 THEN np_divide(offline, active) ELSE Inf,
         percent_active |-> np_times100(np_divide(active, total)),
         percent_inactive |-> np_times100(np_divide(offline, total))]

\* lines 196-217: the content of activity_ratio_report.txt
activity_ratio_report(community_data) ==
    LET active == community_data["active_members"]
        offline == community_data["offline_members"]
        total == community_data["total_members"]
    IN  [community_name |-> community_data["community_name"],
         total_members |-> total,
         active_members |-> active,
         offline_members |-> offline,
         engagement_rate |-> community_data["engagement_rate"],
         inactive_to_active_ratio |->
             IF active > 0 THEN np_divide(offline, active) ELSE Inf,
         active_to_inactive_ratio |->
             IF offline > 0 THEN np_divide(active, offline) ELSE Inf,
         percent_active |-> np_times100(np_divide(active, total)),
         percent_inactive |-> np_times100(np_divide(offline, total))]

\* lines 82-96
files_to_save(is_single_community) ==
    IF is_single_community
    THEN {"activity_ratio_report.txt", "active_vs_inactive_distribution.png",
          "membership_breakdown.png"}
    ELSE {"analysis_report.txt", "engagement_analysis.png",
          "top_communities.png", "activity_matrix.png"}

\* ------------------------------------------------------------- inputs of analyze_communities.py
InviteLink ==
    <<"h","t","t","p","s",":","/","/","d","i","s","c","o","r","d",".","g","g","/","a">>

Snapshot(a, o, t) ==
    [community_name |-> <<"g">> \o str(a) \o <<"o">> \o str(o) \o <<"t">> \o str(t),
     link |-> InviteLink,
     active_members |-> a, offline_members |-> o, total_members |-> t]

\* the snapshots dcil.py writes (total = active + offline), with no or one
\* offline member
FetchedSnapshots == {Snapshot(a, o, a + o) : a \in 0..MaxCount, o \in 0..1}

\* hand-written snapshots: a total of 0 with active members, and more
\* active members than members
EditedSnapshots == {Snapshot(1, 0, 0), Snapshot(2, 0, 1)}

\* a large community all of whose members are online
FullyActiveSnapshots == {Snapshot(100, 0, 100)}

\* a text without the lines numbered in `drop`
DropLines(text, drop) ==
    LET lines == readlines(text)
        keep == SelectSeq([i \in 1..Len(lines) |-> [n |-> i, line |-> lines[i]]],
                          LAMBDA e : e.n \notin drop)
    IN  join(<<>>, [i \in 1..Len(keep) |-> keep[i].line])

\* a record file with a comment line before, a blank line and a note after
WithExtraLines(text) ==
    <<"#"," ","s","n","a","p",NL>> \o text
        \o <<NL, NL, "N","o","t","e",":"," ","o","k",NL>>

\* record files that lack some of the three numeric lines (lines 3, 4, 5)
MalformedTexts ==
    {DropLines(format_report(i), drop) :
        i \in {Snapshot(1, 1, 2), Snapshot(1, 0, 0)},
        drop \in (SUBSET {3, 4, 5}) \ {{}}}

\* the files of a directory: files dcil.py saved, one of them annotated by
\* hand, and files that lost lines
DirTexts ==
    {format_report(i) : i \in FetchedSnapshots}
    \cup {WithExtraLines(format_report(Snapshot(1, 0, 1)))}
    \cup MalformedTexts

\* the files given with -f: the same, the hand-written snapshots and the
\* fully active community
FileTexts ==
    DirTexts \cup {format_report(i) : i \in EditedSnapshots \cup FullyActiveSnapshots}

\* the entries os.listdir may return: record files, and a file that is not
\* a .txt file
DirEntries ==
    {[name |-> <<"r",".","t","x","t">>, text |-> t] : t \in DirTexts}
    \cup {[name |-> <<"n",".","m","d">>, text |-> <<"x">>]}

\* ------------------------------------------------------------- state
VARIABLES
    pc,                \* where main() of analyze_communities.py stands
    args,              \* the parsed command line: u, d, f
    opened,            \* text of the file load_data_from_file is returning from
    communities_data,  \* the list of line 49, while analyze_communities runs
    df,                \* the DataFrame analyze_communities returned
    cwd,               \* names of the files written to the working directory
    written,           \* the report text the last step handed to its file
    saved,             \* files copied to the save directory
    exc                \* the exception that ended main(), if any

VARIABLES
    lookup_pc,         \* where main() of dcil.py stands
    lookup_args,       \* the parsed command line of dcil.py: u, l, L, S, d
    dirs,              \* directories dcil.py created
    links,             \* the list of line 133
    idx,               \* position of the loop of line 135 in links
    reports,           \* the list of line 120
    fetched,           \* history: for every entry of reports, the fetch result
    disk,              \* files dcil.py wrote: path -> text
    origin,            \* history: the info dict of each record file written in full
    printed,           \* kinds of the messages printed
    reloaded           \* what load_data_from_file made of a file of disk

avars == <<pc, args, opened, communities_data, df, cwd, written, saved, exc>>

lvars == <<lookup_pc, lookup_args, dirs, links, idx, reports, fetched, disk,
           origin, printed, reloaded>>

vars == <<avars, lvars>>

NoException == [err |-> "", key |-> ""]

NoFrame == [columns |-> {}, rows |-> <<>>]

NoReport == [file |-> "", report |-> <<>>]

NoTexts == [k \in {} |-> <<>>]

NoInfos == [k \in {} |-> NoInfo]

NotReloaded == [path |-> <<>>, result |-> Raise("", "")]

\* analyze_communities.py before main() runs, for the command line `a`
AnalysisStarts(a) ==
    /\ pc = "start"
    /\ args = a
    /\ opened = <<>>
    /\ communities_data = <<>>
    /\ df = NoFrame
    /\ cwd = {}
    /\ written = NoReport
    /\ saved = {}
    /\ exc = NoException

\* dcil.py before main() runs, for the command line `a`
LookupStarts(a) ==
    /\ lookup_pc = "start"
    /\ lookup_args = a
    /\ dirs = {}
    /\ links = <<>>
    /\ idx = 0
    /\ reports = <<>>
    /\ fetched = <<>>
    /\ disk = NoTexts
    /\ origin = NoInfos
    /\ printed = <<>>
    /\ reloaded = NotReloaded

NoArgs == [u |-> TRUE, d |-> FALSE, f |-> FALSE]

NoLookupArgs == [u |-> TRUE, l |-> FALSE, L |-> FALSE, S |-> FALSE, d |-> FALSE]

\* a run of analyze_communities.py
Init ==
    /\ \E a \in [u : BOOLEAN, d : BOOLEAN, f : BOOLEAN] : AnalysisStarts(a)
    /\ LookupStarts(NoLookupArgs)

\* an exception leaves main(): the locals are gone, the files stay; the
\* actions that raise say what happens to cwd and written
Crash(kind, key) ==
    /\ pc' = "crashed"
    /\ exc' = [err |-> kind, key |-> key]
    /\ communities_data' = <<>>
    /\ df' = NoFrame

\* lines 282-284
ShowsUsage == args.u \/ (~args.d /\ ~args.f)

Usage ==
    /\ pc = "start"
    /\ ShowsUsage
    /\ pc' = "done"
    /\ UNCHANGED <<args, opened, communities_data, df, cwd, written, saved, exc>>
    /\ UNCHANGED lvars

\* lines 51-53: the directory branch is entered whenever -d is given
ListDirectory ==
    /\ pc = "start"
    /\ ~ShowsUsage
    /\ args.d
    /\ pc' = "listing"
    /\ UNCHANGED <<args, opened, communities_data, df, cwd, written, saved, exc>>
    /\ UNCHANGED lvars

\* lines 53-57: one iteration of the loop over the directory entries
LoadDirEntry ==
    /\ pc = "listing"
    /\ Len(communities_data) < MaxFiles
    /\ \E e \in DirEntries :
        /\ IF endswith(e.name, TxtExt)
           THEN LET r == load_data_from_file(e.text)
                IN  /\ opened' = e.text
                    /\ IF r.err = ""
                       THEN /\ communities_data' = Append(communities_data, r.data)
                            /\ UNCHANGED <<pc, df, exc>>
                       ELSE Crash(r.err, r.key)
           ELSE UNCHANGED <<pc, opened, communities_data, df, exc>>
    /\ UNCHANGED <<args, cwd, written, saved>>
    /\ UNCHANGED lvars

\* lines 63-70 after the directory loop
RankDirectory ==
    /\ pc = "listing"
    /\ LET r == add_rankings(communities_data)
       IN  IF r.err = ""
           THEN /\ df' = r.df
                /\ pc' = "analyzed"
                /\ communities_data' = <<>>
                /\ UNCHANGED exc
           ELSE Crash(r.err, r.key)
    /\ opened' = <<>>
    /\ UNCHANGED <<args, cwd, written, saved>>
    /\ UNCHANGED lvars

\* lines 58-70: the single file branch, taken only without -d
LoadFile ==
    /\ pc = "start"
    /\ ~ShowsUsage
    /\ ~args.d
    /\ args.f
    /\ \E text \in FileTexts :
        LET r == load_data_from_file(text)
            ranked == add_rankings(<<r.data>>)
        IN  /\ opened' = text
            /\ IF r.err # "" THEN Crash(r.err, r.key)
               ELSE IF ranked.err # "" THEN Crash(ranked.err, ranked.key)
               ELSE /\ communities_data' = <<>>
                    /\ df' = ranked.df
                    /\ pc' = "analyzed"
                    /\ UNCHANGED exc
    /\ UNCHANGED <<args, cwd, written, saved>>
    /\ UNCHANGED lvars

\* lines 290-291: the competitive report, written unless -f is given
CompetitiveReport ==
    /\ pc = "analyzed"
    /\ ~args.f
    /\ IF "community_name" \notin df.columns
       THEN Crash("KeyError", "community_name") /\ UNCHANGED <<cwd, written>>
       ELSE \E findings \in {report_findings(df)},
               by_size \in sort_values(IntColumn(df.rows, "total_members")),
               by_engagement \in sort_values(Column(df.rows, "engagement_rate")),
               by_activity \in sort_values(Column(df.rows, "active_ratio")) :
                /\ written' = [file |-> "analysis_report.txt",
                               report |-> generate_analysis_report(findings,
                                   by_size, by_engagement, by_activity)]
                /\ cwd' = cwd \cup {"analysis_report.txt"}
                /\ pc' = "reported"
                /\ UNCHANGED <<communities_data, df, exc>>
    /\ opened' = <<>>
    /\ UNCHANGED <<args, saved>>
    /\ UNCHANGED lvars

\* lines 229-272: the three charts of the bulk mode
BulkVisualizations ==
    /\ pc = "reported"
    /\ cwd' = cwd \cup {"engagement_analysis.png", "top_communities.png",
                        "activity_matrix.png"}
    /\ written' = NoReport
    /\ pc' = "visualized"
    /\ UNCHANGED <<args, opened, communities_data, df, saved, exc>>
    /\ UNCHANGED lvars

\* lines 155-221, entered when -f is given: the two charts and the activity
\* ratio report of the first row.  The pie chart of an all-zero series
\* divides by its sum and raises ValueError before anything is written.
SingleVisualizations ==
    /\ pc = "analyzed"
    /\ args.f
    /\ LET community_data == df.rows[1]
       IN  IF community_data["active_members"] + community_data["offline_members"] = 0
           THEN Crash("ValueError", "pie") /\ UNCHANGED <<cwd, written>>
           ELSE IF "community_name" \notin df.columns
           THEN Crash("KeyError", "community_name") /\ UNCHANGED <<cwd, written>>
           ELSE /\ written' = [file |-> "activity_ratio_report.txt",
                               report |-> activity_ratio_report(community_data)]
                /\ cwd' = cwd \cup {"active_vs_inactive_distribution.png",
                                    "membership_breakdown.png",
                                    "activity_ratio_report.txt"}
                /\ pc' = "visualized"
                /\ UNCHANGED <<communities_data, df, exc>>
    /\ opened' = <<>>
    /\ UNCHANGED <<args, saved>>
    /\ UNCHANGED lvars

\* lines 298-299 and 72-105: with -s the files of the mode that exist are
\* copied (under a timestamped name); args.s is read only here, so its
\* value is drawn here
SaveResults ==
    /\ pc = "visualized"
    /\ \E s \in BOOLEAN :
        saved' = IF s THEN files_to_save(args.f) \cap cwd ELSE {}
    /\ written' = NoReport
    /\ pc' = "done"
    /\ UNCHANGED <<args, opened, communities_data, df, cwd, exc>>
    /\ UNCHANGED lvars

Next ==
    \/ Usage
    \/ ListDirectory
    \/ LoadDirEntry
    \/ RankDirectory
    \/ LoadFile
    \/ CompetitiveReport
    \/ BulkVisualizations
    \/ SingleVisualizations
    \/ SaveResults

Spec == Init /\ [][Next]_vars

\* ------------------------------------------------------------- inputs of dcil.py
BareLink == <<"d","i","s","c","o","r","d",".","g","g","/","b">>

BadLink == <<"e","x","a","m","p","l","e",".","c","o","m","/","x">>

\* the lines a links file may hold: an invite link (indented), a link of
\* another site, and a blank line
LinkLines == {<<" ">> \o InviteLink \o <<" ">>, BadLink, <<" ">>}

RECURSIVE SeqsUpTo(_, _)
SeqsUpTo(S, n) ==
    IF n = 0 THEN {<<>>}
    ELSE LET shorter == SeqsUpTo(S, n - 1)
         IN  shorter \cup {Append(q, x) : q \in {r \in shorter : Len(r) = n - 1},
                                            x \in S}

\* the links files: up to MaxLinks lines, each ended by a newline
LinkFiles ==
    {join(<<>>, [i \in 1..Len(q) |-> q[i] \o <<NL>>]) : q \in SeqsUpTo(LinkLines, MaxLinks)}

\* what the invite API may answer: an error status, or the counts of a guild
Responses ==
    {[status_code |-> 404, name |-> <<>>,
      approximate_member_count |-> 0, approximate_presence_count |-> 0],
     [status_code |-> 200, name |-> <<"A","b">>,
      approximate_member_count |-> 12, approximate_presence_count |-> 5],
     [status_code |-> 200, name |-> <<"a","/","b">>,
      approximate_member_count |-> 0, approximate_presence_count |-> 0]}

\* the values given with -S, -d and -s
BaseName == <<"c">>

SaveDir == <<"o","u","t">>

CombinedName == <<"a","l","l">>

\* a run of dcil.py
LookupInit ==
    /\ AnalysisStarts(NoArgs)
    /\ \E a \in [u : BOOLEAN, l : BOOLEAN, L : BOOLEAN, S : BOOLEAN, d : BOOLEAN] :
          LookupStarts(a)

\* ------------------------------------------------------------- dcil.py: main
\* lines 104-106
LookupShowsUsage == lookup_args.u \/ (~lookup_args.l /\ ~lookup_args.L)

\* lines 109-117
FlagMisuse ==
    \/ (lookup_args.S \/ lookup_args.d) /\ ~lookup_args.L
    \/ lookup_args.d /\ ~lookup_args.S

LookupUsage ==
    /\ lookup_pc = "start"
    /\ LookupShowsUsage
    /\ printed' = Append(printed, "usage")
    /\ lookup_pc' = "done"
    /\ UNCHANGED <<lookup_args, dirs, links, idx, reports, fetched, disk, origin,
                   reloaded>>
    /\ UNCHANGED avars

RejectFlags ==
    /\ lookup_pc = "start"
    /\ ~LookupShowsUsage
    /\ FlagMisuse
    /\ printed' = Append(printed, "flag error")
    /\ lookup_pc' = "done"
    /\ UNCHANGED <<lookup_args, dirs, links, idx, reports, fetched, disk, origin,
                   reloaded>>
    /\ UNCHANGED avars

\* lines 113-120: the flags are accepted, the directory of -d is created
AcceptFlags ==
    /\ lookup_pc = "start"
    /\ ~LookupShowsUsage
    /\ ~FlagMisuse
    /\ dirs' = IF lookup_args.d THEN {SaveDir} ELSE {}
    /\ lookup_pc' = IF lookup_args.l THEN "single" ELSE "batch"
    /\ UNCHANGED <<lookup_args, links, idx, reports, fetched, disk, origin,
                   printed, reloaded>>
    /\ UNCHANGED avars

\* lines 122-128: the link of -l; a failure ends the run
SingleLookup ==
    /\ lookup_pc = "single"
    /\ \E link \in {BareLink, BadLink}, response \in Responses :
          LET r == scrape_discord_community(link, response)
          IN  IF r.ok
              THEN /\ reports' = Append(reports, format_report(r.info))
                   /\ fetched' = Append(fetched, [ok |-> TRUE, info |-> r.info])
                   /\ lookup_pc' = IF lookup_args.L THEN "batch" ELSE "output"
                   /\ UNCHANGED printed
              ELSE /\ printed' = Append(printed, "error")
                   /\ lookup_pc' = "done"
                   /\ UNCHANGED <<reports, fetched>>
    /\ UNCHANGED <<lookup_args, dirs, links, idx, disk, origin, reloaded>>
    /\ UNCHANGED avars

\* line 133: the stripped, non-blank lines of a links file
read_links(text) ==
    LET lines == readlines(text)
        stripped == [i \in 1..Len(lines) |-> strip(lines[i])]
    IN  SelectSeq(stripped, LAMBDA l : l # <<>>)

\* lines 130-133, and 164-166 when the file cannot be read
ReadLinks ==
    /\ lookup_pc = "batch"
    /\ \/ /\ lookup_args.L
          /\ \E text \in LinkFiles : links' = read_links(text)
          /\ idx' = 1
          /\ lookup_pc' = "loop"
          /\ UNCHANGED printed
       \/ /\ lookup_args.L
          /\ printed' = Append(printed, "read error")
          /\ lookup_pc' = "done"
          /\ UNCHANGED <<links, idx>>
    /\ UNCHANGED <<lookup_args, dirs, reports, fetched, disk, origin, reloaded>>
    /\ UNCHANGED avars

\* the sizes at which a write may be cut off (a file size limit, a full
\* disk)
WriteLimits == {0, 10}

\* lines 150-155 and 172-177: `with open(path, 'w') as f: f.write(text)`.
\* Either the text is written; or open() fails and the files stay as they
\* are; or open() creates or truncates the file and the write fails, which
\* leaves the part of the text that fits the limit.
open_and_write(files, path, text) ==
    {[disk |-> (path :> text) @@ files, ok |-> TRUE],
     [disk |-> files, ok |-> FALSE]}
    \cup {[disk |-> (path :> SubSeq(text, 1, n)) @@ files, ok |-> FALSE] :
              n \in {m \in WriteLimits : m < Len(text)}}

\* the record files that hold what was written to them, after a write to
\* `path` that failed
intact(infos, path, before, after) ==
    [q \in {r \in DOMAIN infos : r # path \/ after[r] = before[r]} |-> infos[q]]

\* line 142-148: the path of the record file of a community
record_path(a, community_name) ==
    LET filename == ensure_txt_extension(
                        BaseName \o <<"_">> \o sanitize_filename(community_name))
    IN  IF a.d THEN path_join(SaveDir, filename) ELSE filename

\* the loop of lines 135-163 without the inner try/except of lines 136-163:
\* the exception of a failed fetch reaches the handler of lines 164-166,
\* which ends the run
ProcessLinkAborting ==
    /\ lookup_pc = "loop"
    /\ idx <= Len(links)
    /\ \E response \in Responses :
          LET link == links[idx]
              r == scrape_discord_community(link, response)
              report == format_report(r.info)
              filepath == record_path(lookup_args, r.info.community_name)
          IN  IF r.ok
              THEN /\ IF lookup_args.S
                      THEN \E w \in open_and_write(disk, filepath, report) :
                              /\ disk' = w.disk
                              /\ origin' = IF w.ok
                                           THEN (filepath :> r.info) @@ origin
                                           ELSE intact(origin, filepath, disk, w.disk)
                              /\ printed' = Append(printed, IF w.ok THEN "saved"
                                                            ELSE "write error")
                      ELSE UNCHANGED <<disk, origin, printed>>
                   /\ reports' = Append(reports, report)
                   /\ fetched' = Append(fetched, [ok |-> TRUE, info |-> r.info])
                   /\ idx' = idx + 1
                   /\ UNCHANGED lookup_pc
              ELSE /\ printed' = Append(printed, "read error")
                   /\ lookup_pc' = "done"
                   /\ UNCHANGED <<idx, reports, fetched, disk, origin>>
    /\ UNCHANGED <<lookup_args, dirs, links, reloaded>>
    /\ UNCHANGED avars

\* lines 135-163: one iteration of the loop over the links, for each answer
\* of the API; with -S the record file is written, or the write fails and
\* may leave a cut-off file
ProcessLink ==
    /\ lookup_pc = "loop"
    /\ idx <= Len(links)
    /\ \E response \in Responses :
          LET link == links[idx]
              r == scrape_discord_community(link, response)
              report == format_report(r.info)
              filepath == record_path(lookup_args, r.info.community_name)
          IN  IF r.ok
              THEN /\ IF lookup_args.S
                      THEN \E w \in open_and_write(disk, filepath, report) :
                              /\ disk' = w.disk
                              /\ origin' = IF w.ok
                                           THEN (filepath :> r.info) @@ origin
                                           ELSE intact(origin, filepath, disk, w.disk)
                              /\ printed' = Append(printed, IF w.ok THEN "saved"
                                                            ELSE "write error")
                      ELSE UNCHANGED <<disk, origin, printed>>
                   /\ reports' = Append(reports, report)
                   /\ fetched' = Append(fetched, [ok |-> TRUE, info |-> r.info])
              ELSE /\ reports' = Append(reports, ErrScraping \o link \o <<":", " ">>
                                                     \o r.error)
                   /\ fetched' = Append(fetched, [ok |-> FALSE, info |-> NoInfo])
                   /\ printed' = Append(printed, "scrape error")
                   /\ UNCHANGED <<disk, origin>>
    /\ idx' = idx + 1
    /\ UNCHANGED <<lookup_pc, lookup_args, dirs, links, reloaded>>
    /\ UNCHANGED avars

\* the loop of line 135 is exhausted
LoopEnds ==
    /\ lookup_pc = "loop"
    /\ idx > Len(links)
    /\ lookup_pc' = "output"
    /\ UNCHANGED <<lookup_args, dirs, links, idx, reports, fetched, disk, origin,
                   printed, reloaded>>
    /\ UNCHANGED avars

\* lines 168-179: with -s the combined report is written to its file, or
\* the write fails and may leave a cut-off file; without -s it is printed unless -S is given.  args.s
\* is read only here, so whether it is given is drawn here.
Output ==
    /\ lookup_pc = "output"
    /\ LET final_report == join(<<NL, NL>>, reports)
           output_file == ensure_txt_extension(CombinedName)
       IN  \/ \E w \in open_and_write(disk, output_file, final_report) :
                 /\ disk' = w.disk
                 /\ printed' = Append(printed, IF w.ok THEN "combined saved"
                                               ELSE "write error")
           \/ /\ printed' = IF ~lookup_args.S
                            THEN Append(printed, "reports") ELSE printed
              /\ UNCHANGED disk
    /\ lookup_pc' = "done"
    /\ UNCHANGED <<lookup_args, dirs, links, idx, reports, fetched, origin, reloaded>>
    /\ UNCHANGED avars

\* a record file dcil.py saved is read back by load_data_from_file
Reload ==
    /\ lookup_pc = "done"
    /\ \E path \in DOMAIN origin :
          reloaded' = [path |-> path, result |-> load_data_from_file(disk[path])]
    /\ lookup_pc' = "reloaded"
    /\ UNCHANGED <<lookup_args, dirs, links, idx, reports, fetched, disk, origin,
                   printed>>
    /\ UNCHANGED avars

LookupNext ==
    \/ LookupUsage
    \/ RejectFlags
    \/ AcceptFlags
    \/ SingleLookup
    \/ ReadLinks
    \/ ProcessLink
    \/ LoopEnds
    \/ Output
    \/ Reload

LookupSpec == LookupInit /\ [][LookupNext]_vars

\* ------------------------------------------------------------- properties of analyze_communities.py
NumericKeys == {"active_members", "offline_members", "total_members"}

Label(k) ==
    CASE k = "active_members" -> LblActive
      [] k = "offline_members" -> LblOffline
      [] k = "total_members" -> LblTotal

\* the numeric fields for which a text has no line
MissingFields(text) ==
    LET lines == readlines(text)
    IN  {k \in NumericKeys :
            \A i \in 1..Len(lines) : ~startswith(lines[i], Label(k))}

\* the lines of a text no branch of the parser recognises
UnrecognizedLines(text) ==
    LET lines == readlines(text)
    IN  {i \in 1..Len(lines) :
            \A l \in {LblName, LblLink, LblActive, LblOffline, LblTotal} :
                ~startswith(lines[i], l)}

Greater(vals, i) == {j \in 1..Len(vals) : RatLt(vals[i], vals[j])}

Equal(vals, i) == {j \in 1..Len(vals) : vals[j] = vals[i]}

\* ranks[i] is the average of the positions p .. p+k-1 of the block of i,
\* p - 1 values being larger and k values equal, and a larger value has a
\* smaller rank
AverageRanked(vals, ranks) ==
    /\ \A i \in 1..Len(vals) :
          LET p == Cardinality(Greater(vals, i)) + 1
              k == Cardinality(Equal(vals, i))
          IN  2 * ranks[i].num = (p + (p + k - 1)) * ranks[i].den
    /\ \A i, j \in 1..Len(vals) :
          RatLt(vals[j], vals[i]) => RatLt(ranks[i], ranks[j])

Reports == {"analysis_report.txt", "activity_ratio_report.txt"}

\* the Records the parser built that the run holds: in the list while
\* analyze_communities runs, as the rows of the frame afterwards
Records == communities_data \o df.rows

\* C1: the report mode follows the number of Records: the competitive
\* report is written only for 2 or more Records, the single-community
\* report only for exactly 1 Record, a finished run has written the report
\* of its cardinality, and no report is written for 0 Records.
C1_ModeByCardinality ==
    /\ pc # "crashed" /\ "analysis_report.txt" \in cwd
          => Len(df.rows) >= 2
    /\ pc # "crashed" /\ "activity_ratio_report.txt" \in cwd
          => Len(df.rows) = 1
    /\ pc = "done" /\ Len(df.rows) = 1
          => "activity_ratio_report.txt" \in cwd
    /\ pc = "done" /\ Len(df.rows) >= 2
          => "analysis_report.txt" \in cwd
    /\ Len(df.rows) = 0 => cwd \cap Reports = {}

\* C3: for each of the three metrics the rank column holds, for every
\* Record, the average of the sorted positions of its block of equal values
\* in descending order, and a strictly larger value has a strictly smaller
\* rank.  (The frame is assigned by the step that reaches "analyzed" and is
\* not changed afterwards.)
C3_TieAveragedRanks ==
    pc = "analyzed" =>
        /\ AverageRanked(IntColumn(df.rows, "total_members"),
                         Column(df.rows, "size_rank"))
        /\ AverageRanked(Column(df.rows, "engagement_rate"),
                         Column(df.rows, "engagement_rank"))
        /\ AverageRanked(Column(df.rows, "active_ratio"),
                         Column(df.rows, "activity_rank"))

\* three Records, the second and third sorted positions by size tied: 2.5
C3_Witness ==
    /\ pc = "analyzed"
    /\ Len(df.rows) = 3
    /\ \E i, j, k \in 1..3 :
          /\ i # j
          /\ df.rows[k]["total_members"] > df.rows[i]["total_members"]
          /\ df.rows[i]["total_members"] = df.rows[j]["total_members"]
          /\ df.rows[i]["size_rank"] = [num |-> 5, den |-> 2]
          /\ df.rows[j]["size_rank"] = [num |-> 5, den |-> 2]
          /\ df.rows[k]["size_rank"] = [num |-> 1, den |-> 1]

RankColumns == {"size_rank", "engagement_rank", "activity_rank"}

\* the Record a row of the frame was built from
Unranked(row) == [k \in DOMAIN row \ RankColumns |-> row[k]]

\* C4: ranking any permutation of the Records gives every community the
\* three ranks it has in the frame ranked in input order.
C4_RankOrderIndependent ==
    pc = "analyzed" =>
        \A p \in Perms(Len(df.rows)) :
            LET permuted == [i \in 1..Len(df.rows) |-> Unranked(df.rows[p[i]])]
                ranked == add_rankings(permuted).df.rows
            IN  \A i \in 1..Len(df.rows), c \in RankColumns :
                    ranked[i][c] = df.rows[p[i]][c]

\* three Records, two different communities of them tied on size
C4_Witness ==
    /\ pc = "analyzed"
    /\ Len(df.rows) = 3
    /\ \E i, j \in 1..3 :
          /\ df.rows[i]["community_name"] # df.rows[j]["community_name"]
          /\ df.rows[i]["total_members"] = df.rows[j]["total_members"]
          /\ df.rows[i]["size_rank"] = df.rows[j]["size_rank"]

\* C6: a single-community report is never written for a Record whose
\* total_members is 0, and its two percentage findings never come from a
\* division by a zero total.
C6_DegenerateCommunityRejected ==
    written.file = "activity_ratio_report.txt" =>
        LET report == written.report
        IN  /\ report.total_members # 0
            /\ report.percent_active.den # 0
            /\ report.percent_inactive.den # 0

\* C7: after a file is read that lacks one of the three numeric fields the
\* run has ended in a KeyError naming a missing field and holds no Record;
\* after a file is read that has the three fields, with any other lines, the
\* run holds its Record and no parsing error is raised.
C7_MissingFieldRaises ==
    opened # <<>> =>
        IF MissingFields(opened) # {}
        THEN /\ pc = "crashed"
             /\ exc.err = "KeyError"
             /\ exc.key \in MissingFields(opened)
             /\ communities_data = <<>>
             /\ df = NoFrame
        ELSE /\ exc.err \notin {"KeyError"}
             /\ exc.key \notin NumericKeys
             /\ pc # "crashed" =>
                   /\ Records # <<>>
                   /\ NumericKeys \subseteq DOMAIN Records[Len(Records)]

\* a directory run ended by a file without its Total Members line
C7_Witness ==
    /\ "total_members" \in MissingFields(opened)
    /\ "active_members" \notin MissingFields(opened)
    /\ args.d
    /\ pc = "crashed"
    /\ exc = [err |-> "KeyError", key |-> "total_members"]

\* C8 as stated: active_ratio of every parsed Record is finite and > 0.
C8_ActiveRatioPositive ==
    \A i \in 1..Len(Records) :
        /\ Records[i]["active_ratio"].den > 0
        /\ Records[i]["active_ratio"].num > 0

\* C8 amended: active_ratio of every parsed Record is finite, equals
\* active / (offline + 1), is >= 0, and is > 0 exactly when active > 0.
C8_ActiveRatioFiniteNonNegative ==
    \A i \in 1..Len(Records) :
        LET r == Records[i] IN
        /\ r["active_ratio"].den > 0
        /\ r["active_ratio"].num >= 0
        /\ r["active_ratio"].num * (r["offline_members"] + 1)
              = r["active_members"] * r["active_ratio"].den
        /\ r["active_ratio"].num > 0 <=> r["active_members"] > 0

\* Records without offline members: one with no active member (ratio 0)
\* and one with active members (ratio = active count)
C8_Witness ==
    /\ \E i \in 1..Len(Records) :
          /\ Records[i]["active_members"] = 0
          /\ Records[i]["offline_members"] = 0
          /\ Records[i]["active_ratio"] = [num |-> 0, den |-> 1]
    /\ \E i \in 1..Len(Records) :
          /\ Records[i]["active_members"] > 0
          /\ Records[i]["offline_members"] = 0
          /\ Records[i]["active_ratio"].num > 0

\* C9: engagement_rate of every parsed Record lies in [0, 100] when
\* active <= total, and is 0 exactly when total = 0 or active = 0.
C9_EngagementRateRange ==
    \A i \in 1..Len(Records) :
        LET r == Records[i]
            rate == r["engagement_rate"]
        IN  /\ r["active_members"] <= r["total_members"]
                => /\ rate.den > 0
                   /\ 0 <= rate.num
                   /\ rate.num <= 100 * rate.den
            /\ rate.num = 0 <=> (r["total_members"] = 0 \/ r["active_members"] = 0)

\* a Record with 0 < active < total, rate strictly between 0 and 100
C9_Witness ==
    \E i \in 1..Len(Records) :
        LET r == Records[i] IN
        /\ 0 < r["active_members"]
        /\ r["active_members"] < r["total_members"]
        /\ 0 < r["engagement_rate"].num
        /\ r["engagement_rate"].num < 100 * r["engagement_rate"].den

\* the first place, in input order, of the maximum of vals
IsFirstMax(vals, i) ==
    /\ \A j \in 1..Len(vals) : ~RatLt(vals[i], vals[j])
    /\ \A j \in 1..(i-1) : vals[j] # vals[i]

UniqueMax(vals) ==
    \E i \in 1..Len(vals) : \A j \in 1..Len(vals) : j # i => RatLt(vals[j], vals[i])

\* C10: the competitive report names as most engaged, and as largest, the
\* first Record in input order at the maximum; when the maximum is unique
\* that Record is the first row of the corresponding ranking table.
C10_HighestFindings ==
    written.file = "analysis_report.txt" =>
        LET report == written.report
            rate == Column(df.rows, "engagement_rate")
            size == IntColumn(df.rows, "total_members")
        IN  /\ \E i \in 1..Len(rate) :
                  /\ IsFirstMax(rate, i)
                  /\ report.findings.most_engaged.community_name = df.rows[i]["community_name"]
                  /\ report.findings.most_engaged.engagement_rate = rate[i]
            /\ \E i \in 1..Len(size) :
                  /\ IsFirstMax(size, i)
                  /\ report.findings.largest.community_name = df.rows[i]["community_name"]
                  /\ report.findings.largest.total_members = df.rows[i]["total_members"]
            /\ UniqueMax(rate) =>
                  df.rows[report.by_engagement[1]]["community_name"]
                      = report.findings.most_engaged.community_name
            /\ UniqueMax(size) =>
                  df.rows[report.by_size[1]]["community_name"]
                      = report.findings.largest.community_name

\* a report over three Records whose maximal size is shared by two
\* different communities, neither of them first in input order, while the
\* maximal engagement rate is unique
C10_Witness ==
    /\ written.file = "analysis_report.txt"
    /\ Len(df.rows) = 3
    /\ df.rows[2]["total_members"] = df.rows[3]["total_members"]
    /\ df.rows[2]["community_name"] # df.rows[3]["community_name"]
    /\ df.rows[1]["total_members"] < df.rows[2]["total_members"]
    /\ written.report.findings.largest.community_name
          = df.rows[2]["community_name"]
    /\ UniqueMax(Column(df.rows, "engagement_rate"))
    /\ written.report.findings.most_engaged.community_name
          = df.rows[3]["community_name"]

\* ------------------------------------------------------------- properties of dcil.py
\* the reports that precede those of the batch: the one of -l, if given
BatchOffset == IF lookup_args.l THEN 1 ELSE 0

\* the loop over the links file has been entered
BatchBegun == lookup_args.L /\ idx >= 1

\* the fetches of the batch that succeeded
BatchSuccesses ==
    {fetched[BatchOffset + i].info :
        i \in {j \in 1..(idx - 1) : fetched[BatchOffset + j].ok}}

\* C2: in a batch lookup (-L) the links are the non-blank lines of the
\* file, and whatever the fetches give, each link processed so far has
\* added exactly one report, in order: the error entry naming the link
\* when its fetch failed, the record block of its info when it succeeded;
\* the run leaves the loop only after the last link; and every record
\* file on disk lies under the path of the community of a fetch that
\* succeeded and holds its record block, or the beginning of it when the
\* write failed, so a failed link has no record file.
C2_BatchProcessesEveryLink ==
    BatchBegun =>
        /\ \A i \in 1..Len(links) : links[i] # <<>> /\ links[i] = strip(links[i])
        /\ idx <= Len(links) + 1
        /\ Len(reports) = BatchOffset + idx - 1
        /\ Len(fetched) = Len(reports)
        /\ \A i \in 1..(idx - 1) :
              LET f == fetched[BatchOffset + i]
                  entry == reports[BatchOffset + i]
              IN  IF f.ok
                  THEN /\ entry = format_report(f.info)
                       /\ f.info.link = links[i]
                  ELSE /\ startswith(entry, ErrScraping \o links[i] \o <<":", " ">>)
                       /\ entry # format_report(f.info)
        /\ lookup_pc # "loop" => idx = Len(links) + 1
        /\ \A path \in DOMAIN origin :
              /\ origin[path] \in BatchSuccesses
              /\ path = record_path(lookup_args, origin[path].community_name)
              /\ disk[path] = format_report(origin[path])
        /\ \A path \in DOMAIN disk \ {ensure_txt_extension(CombinedName)} :
              \E info \in BatchSuccesses :
                  /\ path = record_path(lookup_args, info.community_name)
                  /\ startswith(format_report(info), disk[path])
        /\ ~lookup_args.S =>
              DOMAIN disk \subseteq {ensure_txt_extension(CombinedName)}

\* a finished batch of three links saving record files, whose first and
\* third fetch failed and whose second succeeded and left its record file
C2_Witness ==
    /\ BatchBegun
    /\ lookup_pc = "done"
    /\ lookup_args.S
    /\ Len(links) = 3
    /\ ~fetched[BatchOffset + 1].ok
    /\ fetched[BatchOffset + 2].ok
    /\ ~fetched[BatchOffset + 3].ok
    /\ DOMAIN origin = {record_path(lookup_args,
                                    fetched[BatchOffset + 2].info.community_name)}
    /\ DOMAIN disk = DOMAIN origin

\* the fields of an info dict as load_data_from_file keys them
InfoData(info) ==
    ("community_name" :> info.community_name)
    @@ ("link" :> info.link)
    @@ ("active_members" :> info.active_members)
    @@ ("offline_members" :> info.offline_members)
    @@ ("total_members" :> info.total_members)

\* C5: a record file written from an info dict by format_report and read
\* back by load_data_from_file gives a Record with the same community
\* name, link and counts, and with the derived metrics of those counts.
C5_RoundTrip ==
    lookup_pc = "reloaded" =>
        LET info == InfoData(origin[reloaded.path])
            result == reloaded.result
        IN  /\ result.err = ""
            /\ \A k \in DOMAIN info :
                  k \in DOMAIN result.data /\ result.data[k] = info[k]
            /\ result.data["engagement_rate"] = engagement_rate(info)
            /\ result.data["active_ratio"] = active_ratio(info)

\* ------------------------------------------------------------- properties of the activity ratio report
\* q is the exact quotient x / y of a non-zero divisor
IsQuotient(q, x, y) == q.den > 0 /\ q.num * y = x * q.den

\* q is a finite number
IsFinite(q) == q.den > 0

\* C11 as stated: in the single-community report, without offline
\* members the active-per-inactive ratio is a finite sentinel, without
\* active members the inactive-per-active ratio is a sentinel, otherwise
\* each ratio is the exact quotient, and with active but no offline
\* members the inactive-per-active ratio is 0.
C11_FiniteSentinel ==
    written.file = "activity_ratio_report.txt" =>
        LET r == written.report
            active == r.active_members
            offline == r.offline_members
        IN  /\ offline = 0 => IsFinite(r.active_to_inactive_ratio)
            /\ offline > 0 => IsQuotient(r.active_to_inactive_ratio, active, offline)
            /\ active = 0 => \/ r.inactive_to_active_ratio = Inf
                             \/ IsFinite(r.inactive_to_active_ratio)
            /\ active > 0 => IsQuotient(r.inactive_to_active_ratio, offline, active)
            /\ active > 0 /\ offline = 0 => r.inactive_to_active_ratio = Rat(0, 1)

\* C11 amended: in every single-community report that is written, the
\* sentinel of both cross-ratios is +infinity: it is the active-per-
\* inactive ratio exactly when there is no offline member and the
\* inactive-per-active ratio exactly when there is no active member;
\* otherwise each ratio is the exact quotient, and with active but no
\* offline members the inactive-per-active ratio is 0.  No run ends in a
\* ZeroDivisionError.
C11_InfiniteSentinel ==
    /\ exc.err # "ZeroDivisionError"
    /\ written.file = "activity_ratio_report.txt" =>
        LET r == written.report
            active == r.active_members
            offline == r.offline_members
        IN  /\ offline = 0 => r.active_to_inactive_ratio = Inf
            /\ offline > 0 => IsQuotient(r.active_to_inactive_ratio, active, offline)
            /\ active = 0 => r.inactive_to_active_ratio = Inf
            /\ active > 0 => IsQuotient(r.inactive_to_active_ratio, offline, active)
            /\ active > 0 /\ offline = 0 => r.inactive_to_active_ratio = Rat(0, 1)

\* the report of a community of 100 members, all of them active:
\* "inf" active per inactive member, 0.00 inactive per active member
C11_Witness ==
    /\ written.file = "activity_ratio_report.txt"
    /\ written.report.active_members = 100
    /\ written.report.offline_members = 0
    /\ written.report.active_to_inactive_ratio = Inf
    /\ written.report.inactive_to_active_ratio = Rat(0, 1)
====
